---- MODULE Spec2Model ----
(***************************************************************************)
(* Tool Builder (src/app.py): the tabular transcoder, the evaluation       *)
(* engine and the Streamlit session of main().                             *)
(*                                                                         *)
(* Python values are modelled as tuples, so that any two of them can be    *)
(* compared:                                                               *)
(*   - a str is the tuple of its glyphs; the glyphs " " (whitespace) and   *)
(*     "," are the two characters strip() and split(",") look at, every    *)
(*     other glyph ("q", "Yes", ...) stands for a run of other characters; *)
(*   - None, True, False are one-element tuples of a reserved glyph;       *)
(*   - Missing marks a key that a dict does not hold (dict.get then        *)
(*     returns its default);                                               *)
(*   - a list held in a row cell is tagged by a leading "<list>".          *)
(* A dict with a fixed key set is a record; a list of dicts a sequence.    *)
(***************************************************************************)
EXTENDS Integers, Sequences, FiniteSets, TLC

VARIABLES
    \* --- one application of the transcoder / engine functions -----------
    phase,            \* "start" | "built" | "error" | "scored"
    tool,             \* the ToolDefinition the functions are applied to
    last,             \* the last function applied, its argument and result
    values,           \* the values mapping handed to the engine
    outcome,          \* evaluate_rules' result
    scores,           \* compute_scores' result
    \* --- st.session_state and the file of main() -------------------------
    tool_order,       \* keys of tools_data["tools"], in dict order
    tools,            \* tools_data["tools"]: tool id -> ToolDefinition
    file_order,       \* data/tools.json: keys in order
    file_tools,       \* data/tools.json: tool id -> ToolDefinition
    selected_tool_id, \* st.session_state.selected_tool_id
    editing_tool,     \* st.session_state.editing_tool
    preview_values,   \* st.session_state.preview_values: tool id -> values
    chosen,           \* the tool the user has chosen in the sidebar
    saves,            \* how often Save Tool was pressed
    event             \* what the last script run did

vars == <<phase, tool, last, values, outcome, scores, tool_order, tools,
          file_order, file_tools, selected_tool_id, editing_tool,
          preview_values, chosen, saves, event>>

fnVars == <<phase, tool, last, values, outcome, scores>>
appVars == <<tool_order, tools, file_order, file_tools, selected_tool_id,
             editing_tool, preview_values, chosen, saves, event>>

-----------------------------------------------------------------------------
(* Python values *)

None == <<"<None>">>
Missing == <<"<Missing>">>
PyTrue == <<"<True>">>
PyFalse == <<"<False>">>
EmptyStr == <<>>

\* str literals of the source and of the examples
S(g) == <<g>>
SP == " "
COMMA == ","

IsList(v) == Len(v) > 0 /\ v[1] = "<list>"
ListItems(v) == Tail(v)
MkList(items) == <<"<list>">> \o items

IsStr(v) == v \notin {None, Missing, PyTrue, PyFalse} /\ ~IsList(v)

\* Python truth value: None, False, "" and [] are false
Truthy(v) == v \notin {None, PyFalse, EmptyStr, MkList(<<>>)}

\* bool(x)
PyBool(v) == IF Truthy(v) THEN PyTrue ELSE PyFalse

\* dict.get(key, default) on a cell: the default only when the key is absent
Get(cell, default) == IF cell = Missing THEN default ELSE cell

\* only a str has .strip(); on None it raises AttributeError
CanStrip(v) == IsStr(v)

RECURSIVE LStrip(_)
LStrip(s) == IF s # <<>> /\ Head(s) = SP THEN LStrip(Tail(s)) ELSE s

RECURSIVE RStrip(_)
RStrip(s) ==
    IF s # <<>> /\ s[Len(s)] = SP THEN RStrip(SubSeq(s, 1, Len(s) - 1)) ELSE s

\* str.strip()
Strip(s) == RStrip(LStrip(s))

\* str.split(","): the pieces between the commas, empty pieces included
RECURSIVE SplitFrom(_, _)
SplitFrom(s, cur) ==
    IF s = <<>> THEN <<cur>>
    ELSE IF Head(s) = COMMA THEN <<cur>> \o SplitFrom(Tail(s), <<>>)
    ELSE SplitFrom(Tail(s), Append(cur, Head(s)))

Split(s) == SplitFrom(s, <<>>)

\* ", ".join(items)
RECURSIVE Join(_)
Join(items) ==
    IF items = <<>> THEN EmptyStr
    ELSE IF Len(items) = 1 THEN items[1]
    ELSE items[1] \o <<COMMA, SP>> \o Join(Tail(items))

\* [f(x) for x in seq if keep(x)] helpers
RECURSIVE StripNonEmpty(_)
StripNonEmpty(items) ==
    IF items = <<>> THEN <<>>
    ELSE LET o == Strip(Head(items)) IN
         (IF o # EmptyStr THEN <<o>> ELSE <<>>) \o StripNonEmpty(Tail(items))

\* str(x)
Str(v) ==
    IF v = None THEN S("None")
    ELSE IF v = PyTrue THEN S("True")
    ELSE IF v = PyFalse THEN S("False")
    ELSE v

RECURSIVE StrAll(_)
StrAll(items) ==
    IF items = <<>> THEN <<>> ELSE <<Str(Head(items))>> \o StrAll(Tail(items))

\* a function's result: a value, or an exception raised
Ok(v) == [ok |-> TRUE, val |-> v]
Raised == [ok |-> FALSE, val |-> <<>>]

-----------------------------------------------------------------------------
(* Tabular transcoder *)

\* [o.strip() for o in ... if o.strip()], without the strip (a mutation)
normalize_options_nostrip(options_csv) ==
    IF ~Truthy(options_csv) THEN MkList(<<>>)
    ELSE IF IsList(options_csv)
         THEN MkList(SelectSeq(StrAll(ListItems(options_csv)), LAMBDA o : o # EmptyStr))
    ELSE MkList(SelectSeq(Split(Str(options_csv)), LAMBDA o : o # EmptyStr))

normalize_options(options_csv) ==
    IF ~Truthy(options_csv) THEN MkList(<<>>)
    ELSE IF IsList(options_csv)
         THEN MkList(StripNonEmpty(StrAll(ListItems(options_csv))))
    ELSE MkList(StripNonEmpty(Split(Str(options_csv))))

\* one row of tool_to_input_rows
InputToRow(item) ==
    [id          |-> Get(item.id, EmptyStr),
     label       |-> Get(item.label, EmptyStr),
     type        |-> Get(item.type, S("select")),
     options_csv |-> Join(ListItems(Get(item.options, MkList(<<>>))))]

tool_to_input_rows(t) == [i \in 1..Len(t.inputs) |-> InputToRow(t.inputs[i])]

\* `if not row.get("id"): continue`
InputRowKept(row) == Truthy(Get(row.id, None))

\* the .strip() calls of a kept row succeed
InputRowStrips(row) == CanStrip(Get(row.id, None)) /\ CanStrip(Get(row.label, EmptyStr))

RowToInput(row) ==
    [id      |-> Strip(Get(row.id, None)),
     label   |-> Strip(Get(row.label, EmptyStr)),
     type    |-> Get(row.type, S("select")),
     options |-> normalize_options(Get(row.options_csv, EmptyStr))]


RECURSIVE MapInputRows(_)
MapInputRows(rows) ==
    IF rows = <<>> THEN <<>>
    ELSE (IF InputRowKept(Head(rows)) THEN <<RowToInput(Head(rows))>> ELSE <<>>)
         \o MapInputRows(Tail(rows))

input_rows_to_tool(rows) ==
    IF \E i \in 1..Len(rows) : InputRowKept(rows[i]) /\ ~InputRowStrips(rows[i])
    THEN Raised
    ELSE Ok(MapInputRows(rows))

\* one row of tool_to_scoring_rows
ScoringToRow(item) ==
    [input_id           |-> Get(item.input_id, EmptyStr),
     favor_values_csv   |-> Join(ListItems(Get(item.favor_values, MkList(<<>>)))),
     against_values_csv |-> Join(ListItems(Get(item.against_values, MkList(<<>>)))),
     invert_favor       |-> PyBool(Get(item.invert_favor, PyFalse))]

tool_to_scoring_rows(t) ==
    [i \in 1..Len(t.scoring_rules) |-> ScoringToRow(t.scoring_rules[i])]

\* `if not row.get("input_id"): continue`
ScoringRowKept(row) == Truthy(Get(row.input_id, None))

ScoringRowStrips(row) == CanStrip(Get(row.input_id, None))

RowToScoring(row) ==
    [input_id       |-> Strip(Get(row.input_id, None)),
     favor_values   |-> normalize_options(Get(row.favor_values_csv, EmptyStr)),
     against_values |-> normalize_options(Get(row.against_values_csv, EmptyStr)),
     invert_favor   |-> PyBool(Get(row.invert_favor, PyFalse))]

RECURSIVE MapScoringRows(_)
MapScoringRows(rows) ==
    IF rows = <<>> THEN <<>>
    ELSE (IF ScoringRowKept(Head(rows)) THEN <<RowToScoring(Head(rows))>> ELSE <<>>)
         \o MapScoringRows(Tail(rows))

scoring_rows_to_tool(rows) ==
    IF \E i \in 1..Len(rows) : ScoringRowKept(rows[i]) /\ ~ScoringRowStrips(rows[i])
    THEN Raised
    ELSE Ok(MapScoringRows(rows))

\* range(3): the condition slots of a rule row
NumSlots == 3

\* the cells input_id_{k}, value_{k} of a rule's row
SlotId(conditions, k) ==
    IF k <= Len(conditions) THEN Get(conditions[k].input_id, EmptyStr) ELSE EmptyStr

SlotValue(conditions, k) ==
    IF k <= Len(conditions) THEN Get(conditions[k].value, EmptyStr) ELSE EmptyStr

\* one row of tool_to_rule_rows
RuleToRow(rule) ==
    [name     |-> Get(rule.name, EmptyStr),
     level    |-> Get(rule.level, S("info")),
     message  |-> Get(rule.message, EmptyStr),
     input_id |-> [k \in 1..NumSlots |-> SlotId(rule.conditions, k)],
     value    |-> [k \in 1..NumSlots |-> SlotValue(rule.conditions, k)]]

RECURSIVE MapRules(_)
MapRules(rules) ==
    IF rules = <<>> THEN <<>> ELSE <<RuleToRow(Head(rules))>> \o MapRules(Tail(rules))

tool_to_rule_rows(t) == MapRules(t.rules)

\* `if not row.get("name"): continue`
RuleRowKept(row) == Truthy(Get(row.name, None))

\* row.get(f"input_id_{idx + 1}", "").strip() succeeds in every slot
RuleRowStrips(row) == \A k \in 1..NumSlots : CanStrip(Get(row.input_id[k], EmptyStr))

\* `if input_id and value != "": conditions.append(...)`, slots k..3
RECURSIVE SlotConditions(_, _)
SlotConditions(row, k) ==
    IF k > NumSlots THEN <<>>
    ELSE LET input_id == Strip(Get(row.input_id[k], EmptyStr))
             value    == Get(row.value[k], EmptyStr)
         IN  (IF Truthy(input_id) /\ value # EmptyStr
              THEN <<[input_id |-> input_id, op |-> S("equals"), value |-> value]>>
              ELSE <<>>)
             \o SlotConditions(row, k + 1)

RowToRule(row) ==
    [name       |-> Get(row.name, EmptyStr),
     level      |-> Get(row.level, S("info")),
     message    |-> Get(row.message, EmptyStr),
     conditions |-> SlotConditions(row, 1)]

RECURSIVE MapRuleRows(_)
MapRuleRows(rows) ==
    IF rows = <<>> THEN <<>>
    ELSE (IF RuleRowKept(Head(rows)) THEN <<RowToRule(Head(rows))>> ELSE <<>>)
         \o MapRuleRows(Tail(rows))

rule_rows_to_tool(rows) ==
    IF \E i \in 1..Len(rows) : RuleRowKept(rows[i]) /\ ~RuleRowStrips(rows[i])
    THEN Raised
    ELSE Ok(MapRuleRows(rows))

-----------------------------------------------------------------------------
(* Evaluation engine *)

\* dict.get(key): the value, or None when the key is absent
DictGet(d, key) == IF key \in DOMAIN d THEN d[key] ELSE None

\* the inner loop of evaluate_rules: no condition has actual != expected
RuleMatches(rule, vals) ==
    \A c \in 1..Len(rule.conditions) :
        DictGet(vals, Get(rule.conditions[c].input_id, None))
            = Get(rule.conditions[c].value, None)

\* the loop of evaluate_rules without `if not conditions: continue` (a mutation)
RECURSIVE FirstMatchNoSkip(_, _, _)
FirstMatchNoSkip(rules, vals, i) ==
    IF i > Len(rules) THEN 0
    ELSE IF RuleMatches(rules[i], vals) THEN i
    ELSE FirstMatchNoSkip(rules, vals, i + 1)

\* the loop of evaluate_rules from rule i on: the index of the rule returned,
\* 0 when the loop ends without a return
RECURSIVE FirstMatch(_, _, _)
FirstMatch(rules, vals, i) ==
    IF i > Len(rules) THEN 0
    ELSE IF rules[i].conditions # <<>> /\ RuleMatches(rules[i], vals) THEN i
    ELSE FirstMatch(rules, vals, i + 1)

\* tool.get("fallback", {...}), then .get("level", ...), .get("message", ...)
\* (t.fallback is <<>> when the tool has no "fallback" key, else <<the dict>>)
FallbackOutcome(t) ==
    IF t.fallback = <<>>
    THEN [level |-> S("warning"), message |-> S("No rules matched.")]
    ELSE [level   |-> Get(t.fallback[1].level, S("warning")),
          message |-> Get(t.fallback[1].message, S("No rules matched."))]

RuleOutcome(rule) ==
    [level |-> Get(rule.level, S("info")), message |-> Get(rule.message, EmptyStr)]

\* which rule evaluate_rules returns from (0: the fallback)
SelectedRule(t, vals) == FirstMatch(t.rules, vals, 1)

evaluate_rules(t, vals) ==
    LET i == SelectedRule(t, vals)
    IN  IF i > 0 THEN RuleOutcome(t.rules[i]) ELSE FallbackOutcome(t)

\* `value in favor_values`: list membership by ==
InList(value, list) == \E i \in 1..Len(ListItems(list)) : ListItems(list)[i] = value

\* the score of one scoring rule with the favor test second (a mutation)
RuleScoreAgainstFirst(rule, vals) ==
    LET value  == DictGet(vals, Get(rule.input_id, None))
        invert == Truthy(Get(rule.invert_favor, PyFalse))
    IN  IF InList(value, Get(rule.against_values, MkList(<<>>)))
        THEN (IF invert THEN 1 ELSE -1)
        ELSE IF InList(value, Get(rule.favor_values, MkList(<<>>)))
        THEN (IF invert THEN -1 ELSE 1)
        ELSE 0

\* the score of one scoring rule: 1, -1 or 0
RuleScore(rule, vals) ==
    LET value  == DictGet(vals, Get(rule.input_id, None))
        invert == Truthy(Get(rule.invert_favor, PyFalse))
    IN  IF InList(value, Get(rule.favor_values, MkList(<<>>)))
        THEN (IF invert THEN -1 ELSE 1)
        ELSE IF InList(value, Get(rule.against_values, MkList(<<>>)))
        THEN (IF invert THEN 1 ELSE -1)
        ELSE 0

\* the loop of compute_scores over rules[i..], from the counters (plus, minus)
RECURSIVE ScoreFrom(_, _, _, _, _)
ScoreFrom(rules, vals, i, plus, minus) ==
    IF i > Len(rules) THEN [plus |-> plus, minus |-> minus]
    ELSE IF ~Truthy(Get(rules[i].input_id, None))
    THEN ScoreFrom(rules, vals, i + 1, plus, minus)
    ELSE LET score == RuleScore(rules[i], vals)
         IN  ScoreFrom(rules, vals, i + 1,
                       IF score = 1 THEN plus + 1 ELSE plus,
                       IF score = -1 THEN minus + 1 ELSE minus)

compute_scores(t, vals) == ScoreFrom(t.scoring_rules, vals, 1, 0, 0)

-----------------------------------------------------------------------------
(* The template tool, and the definitions and rows the functions are given *)

Input(id, label, type, options) ==
    [id |-> id, label |-> label, type |-> type, options |-> MkList(options)]

Scoring(input_id, favor, against, invert) ==
    [input_id |-> input_id, favor_values |-> MkList(favor),
     against_values |-> MkList(against), invert_favor |-> invert]

Cond(input_id, value) == [input_id |-> input_id, op |-> S("equals"), value |-> value]

Rule(name, level, message, conditions) ==
    [name |-> name, level |-> level, message |-> message, conditions |-> conditions]

Tool(name, inputs, scoring_rules, rules, fallback) ==
    [name |-> name, description |-> EmptyStr, inputs |-> inputs,
     scoring_rules |-> scoring_rules, rules |-> rules, fallback |-> fallback]

Fallback(level, message) == <<[level |-> level, message |-> message]>>

DEFAULT_TOOL ==
    Tool(S("New Tool"),
         <<Input(S("example_yes_no"), S("Example Yes/No?"), S("select"),
                 <<S("Yes"), S("No"), S("Unknown")>>)>>,
         <<Scoring(S("example_yes_no"), <<S("Yes")>>, <<S("No")>>, PyFalse)>>,
         <<Rule(S("Example Rule"), S("info"), S("Example: Rule matched"),
                <<Cond(S("example_yes_no"), S("Yes"))>>)>>,
         Fallback(S("warning"), S("No rules matched.")))

\* the tool of the specification's end-to-end examples, with a second input
ExampleTool ==
    Tool(S("Example"),
         <<Input(S("q"), S("Q?"), S("select"), <<S("Yes"), S("No")>>),
           Input(S("r"), EmptyStr, S("text"), <<>>)>>,
         <<Scoring(S("q"), <<S("Yes")>>, <<S("No")>>, PyFalse),
           Scoring(S("r"), <<S("Yes")>>, <<S("No")>>, PyTrue)>>,
         <<Rule(S("R2"), S("info"), S("Both"),
                <<Cond(S("q"), S("Yes")), Cond(S("r"), S("Yes"))>>),
           Rule(S("R1"), S("success"), S("Go"), <<Cond(S("q"), S("Yes"))>>)>>,
         Fallback(S("warning"), S("No")))

\* hand-written definitions a tools.json may hold
PaddedTool ==
    Tool(S("Padded"),
         <<Input(<<SP, "q">>, <<"Q?", SP>>, S("select"), <<<<SP, "Yes">>, S("No")>>)>>,
         <<Scoring(S("q"), <<S("Yes"), EmptyStr>>, <<S("No")>>, PyFalse)>>,
         <<Rule(S("R1"), S("success"), S("Go"), <<Cond(<<"q", SP>>, S("Yes"))>>)>>,
         Fallback(S("warning"), S("No")))

EmptyValueTool ==
    Tool(S("EmptyValue"),
         <<Input(S("q"), S("Q?"), S("text"), <<>>)>>,
         <<Scoring(S("q"), <<S("Yes")>>, <<S("Yes")>>, PyFalse)>>,
         <<Rule(S("R1"), S("success"), S("Blank"),
                <<Cond(S("q"), EmptyStr), Cond(S("r"), S("Yes"))>>)>>,
         Fallback(S("warning"), S("No")))

FourConditionTool ==
    Tool(S("Four"),
         <<Input(S("q"), S("Q?"), S("select"), <<S("Yes"), S("No")>>)>>,
         <<>>,
         <<Rule(S("R4"), S("error"), S("Four"),
                <<Cond(S("q"), S("Yes")), Cond(S("q"), S("Yes")),
                  Cond(S("q"), S("Yes")), Cond(S("r"), S("Yes"))>>)>>,
         Fallback(S("info"), S("No")))

CommaTool ==
    Tool(S("Comma"),
         <<Input(S("q"), S("Q?"), S("select"), <<<<"Yes", COMMA, "No">>>>)>>,
         <<Scoring(S("q"), <<S("Yes")>>, <<S("No")>>, PyTrue)>>,
         <<Rule(S("R0"), S("error"), S("Empty"), <<>>),
           Rule(S("R1"), S("success"), S("Go"), <<Cond(S("q"), S("Yes"))>>)>>,
         Fallback(S("warning"), S("No")))

\* no "fallback" key, and only rules without conditions
NoFallbackTool ==
    Tool(S("Bare"),
         <<Input(S("q"), S("Q?"), S("select"), <<S("Yes"), S("No")>>)>>,
         <<Scoring(EmptyStr, <<S("Yes")>>, <<S("No")>>, PyFalse),
           Scoring(S("q"), <<S("Yes"), S("No")>>, <<S("Yes")>>, PyTrue)>>,
         <<Rule(S("R0"), S("error"), S("Empty"), <<>>)>>,
         <<>>)

LoadedTools ==
    {DEFAULT_TOOL, ExampleTool, PaddedTool, EmptyValueTool, FourConditionTool,
     CommaTool, NoFallbackTool}

\* the longest list of rows handed to a rows-to-model conversion
MaxRows == 2

InputRow(id, label, type, options_csv) ==
    [id |-> id, label |-> label, type |-> type, options_csv |-> options_csv]

\* rows as the grid editor returns them: a cell the user typed in is a str, a
\* cell never filled is None, a key may miss altogether
InputRowChoices ==
    {InputRow(S("q"), S("Q?"), S("select"), <<"Yes", COMMA, SP, "No">>),
     InputRow(<<SP, "q", SP>>, <<SP, "Q?">>, Missing, <<"Yes", COMMA, COMMA, SP, "No">>),
     InputRow(<<SP>>, EmptyStr, S("text"), None),
     InputRow(None, None, None, None),
     InputRow(S("r"), None, S("number"), EmptyStr),
     InputRow(EmptyStr, S("Q?"), S("select"), S("Yes")),
     InputRow(Missing, Missing, Missing, MkList(<<S("Yes"), <<SP>>, None>>)),
     InputRow(S("r"), Missing, S("select"), MkList(<<S("Yes"), <<SP>>, None>>))}

ScoringRow(input_id, favor_values_csv, against_values_csv, invert_favor) ==
    [input_id |-> input_id, favor_values_csv |-> favor_values_csv,
     against_values_csv |-> against_values_csv, invert_favor |-> invert_favor]

ScoringRowChoices ==
    {ScoringRow(S("q"), S("Yes"), S("No"), PyFalse),
     ScoringRow(S("q"), S("Yes"), S("No"), PyTrue),
     ScoringRow(<<"q", SP>>, <<"Yes", COMMA, SP, "No">>, S("Yes"), PyFalse),
     ScoringRow(S("ghost"), S("Yes"), S("No"), None),
     ScoringRow(None, None, None, None),
     ScoringRow(<<SP>>, S("Yes"), EmptyStr, Missing),
     ScoringRow(S("r"), None, <<"No", COMMA, "Yes">>, PyTrue)}

RuleRow(name, level, message, input_id, value) ==
    [name |-> name, level |-> level, message |-> message,
     input_id |-> input_id, value |-> value]

RuleRowChoices ==
    {RuleRow(S("R1"), S("success"), S("Go"),
             <<S("q"), EmptyStr, EmptyStr>>, <<S("Yes"), EmptyStr, EmptyStr>>),
     RuleRow(S("R2"), S("info"), S("Both"),
             <<S("q"), S("r"), EmptyStr>>, <<S("Yes"), S("Yes"), EmptyStr>>),
     RuleRow(S("R3"), S("error"), S("Empty"),
             <<EmptyStr, EmptyStr, EmptyStr>>, <<EmptyStr, EmptyStr, EmptyStr>>),
     RuleRow(S("R4"), S("warning"), S("Ghost"),
             <<S("ghost"), EmptyStr, EmptyStr>>, <<None, EmptyStr, EmptyStr>>),
     RuleRow(None, None, None, <<None, None, None>>, <<None, None, None>>),
     RuleRow(S("R6"), None, None, <<S("q"), None, None>>, <<S("No"), None, None>>),
     RuleRow(EmptyStr, S("info"), S("Unnamed"),
             <<S("q"), EmptyStr, EmptyStr>>, <<S("Yes"), EmptyStr, EmptyStr>>),
     RuleRow(S("R8"), Missing, S("No"),
             <<<<SP, "q", SP>>, S("q"), Missing>>, <<S("No"), EmptyStr, Missing>>),
     RuleRow(S("R9"), S("info"), S("Dangling"),
             <<S("ghost"), EmptyStr, EmptyStr>>, <<S("Yes"), EmptyStr, EmptyStr>>)}

\* the sequences over `choices` of length at most n
SeqsUpTo(choices, n) == UNION {[1..k -> choices] : k \in 0..n}

\* the values mappings of the input collector: each input id absent or answered
ValueIds == {S("q"), S("r"), EmptyStr}
ValueScalars == {S("Yes"), S("No")}
ValueMaps == UNION {[K -> ValueScalars] : K \in SUBSET ValueIds}

-----------------------------------------------------------------------------
(* One application of the functions: a definition is loaded, one grid is   *)
(* converted (or all three are converted there and back), and the result   *)
(* is evaluated.                                                           *)

NoCall == [fn |-> "none", before |-> DEFAULT_TOOL, rows |-> <<>>, res |-> Ok(<<>>)]

NoOutcome == [level |-> Missing, message |-> Missing]
NoScores == [plus |-> 0, minus |-> 0]

\* the session part, untouched here
AppIdle ==
    /\ tool_order = <<>>
    /\ tools = <<>>
    /\ file_order = <<>>
    /\ file_tools = <<>>
    /\ selected_tool_id = None
    /\ editing_tool = <<>>
    /\ preview_values = <<>>
    /\ chosen = None
    /\ saves = 0
    /\ event = [kind |-> "none", ended |-> "done", target |-> None, wanted |-> None]

FnInit ==
    /\ phase = "start"
    /\ tool \in LoadedTools
    /\ last = NoCall
    /\ values = <<>>
    /\ outcome = NoOutcome
    /\ scores = NoScores
    /\ AppIdle

Called(fn, rows, res) == [fn |-> fn, before |-> tool, rows |-> rows, res |-> res]

\* tool["inputs"] = input_rows_to_tool(input_rows)
InputsEdited(rows) ==
    /\ phase = "start"
    /\ LET res == input_rows_to_tool(rows)
       IN  /\ last' = Called("input_rows_to_tool", rows, res)
           /\ phase' = IF res.ok THEN "built" ELSE "error"
           /\ tool' = IF res.ok THEN [tool EXCEPT !.inputs = res.val] ELSE tool
    /\ UNCHANGED <<values, outcome, scores>>
    /\ UNCHANGED appVars

\* tool["scoring_rules"] = scoring_rows_to_tool(scoring_rows)
ScoringEdited(rows) ==
    /\ phase = "start"
    /\ LET res == scoring_rows_to_tool(rows)
       IN  /\ last' = Called("scoring_rows_to_tool", rows, res)
           /\ phase' = IF res.ok THEN "built" ELSE "error"
           /\ tool' = IF res.ok THEN [tool EXCEPT !.scoring_rules = res.val] ELSE tool
    /\ UNCHANGED <<values, outcome, scores>>
    /\ UNCHANGED appVars

\* tool["rules"] = rule_rows_to_tool(rule_rows)
RulesEdited(rows) ==
    /\ phase = "start"
    /\ LET res == rule_rows_to_tool(rows)
       IN  /\ last' = Called("rule_rows_to_tool", rows, res)
           /\ phase' = IF res.ok THEN "built" ELSE "error"
           /\ tool' = IF res.ok THEN [tool EXCEPT !.rules = res.val] ELSE tool
    /\ UNCHANGED <<values, outcome, scores>>
    /\ UNCHANGED appVars

\* the three grids of a definition, converted to rows and back unedited
RoundTrip(t) ==
    LET i == input_rows_to_tool(tool_to_input_rows(t))
        s == scoring_rows_to_tool(tool_to_scoring_rows(t))
        r == rule_rows_to_tool(tool_to_rule_rows(t))
    IN  IF i.ok /\ s.ok /\ r.ok
        THEN Ok([t EXCEPT !.inputs = i.val, !.scoring_rules = s.val, !.rules = r.val])
        ELSE Raised

Unedited ==
    /\ phase = "start"
    /\ LET res == RoundTrip(tool)
       IN  /\ last' = Called("round_trip", <<>>, res)
           /\ phase' = IF res.ok THEN "built" ELSE "error"
           /\ tool' = IF res.ok THEN res.val ELSE tool
    /\ UNCHANGED <<values, outcome, scores>>
    /\ UNCHANGED appVars

\* level, message = evaluate_rules(tool, preview_values)
\* plus, minus = compute_scores(tool, preview_values)
Evaluate(vals) ==
    /\ phase \in {"start", "built"}
    /\ phase' = "scored"
    /\ values' = vals
    /\ outcome' = evaluate_rules(tool, vals)
    /\ scores' = compute_scores(tool, vals)
    /\ UNCHANGED <<tool, last>>
    /\ UNCHANGED appVars

FnNext ==
    \/ \E rows \in SeqsUpTo(InputRowChoices, MaxRows) : InputsEdited(rows)
    \/ \E rows \in SeqsUpTo(ScoringRowChoices, MaxRows) : ScoringEdited(rows)
    \/ \E rows \in SeqsUpTo(RuleRowChoices, MaxRows) : RulesEdited(rows)
    \/ Unedited
    \/ \E vals \in ValueMaps : Evaluate(vals)

Spec == FnInit /\ [][FnNext]_vars

-----------------------------------------------------------------------------
(* Claims about evaluate_rules and compute_scores *)

\* a condition holds: values has the key, and the value under it is equal
ConditionHolds(cond, vals) ==
    cond.input_id \in DOMAIN vals /\ vals[cond.input_id] = cond.value

\* a rule is satisfied: it has conditions, and each of them holds
Satisfied(rule, vals) ==
    /\ rule.conditions # <<>>
    /\ \A c \in 1..Len(rule.conditions) : ConditionHolds(rule.conditions[c], vals)

SatisfiedRules(t, vals) == {i \in 1..Len(t.rules) : Satisfied(t.rules[i], vals)}

Least(nums) == CHOOSE n \in nums : \A m \in nums : n <= m

\* the tool's fallback (level, message), the default one when it has none
ExpectedFallback(t) ==
    IF t.fallback = <<>>
    THEN [level |-> S("warning"), message |-> S("No rules matched.")]
    ELSE t.fallback[1]

OutcomeOf(rule) == [level |-> rule.level, message |-> rule.message]

\* C1: evaluate_rules returns the (level, message) of the lowest-index rule
\* whose conditions all hold in values, and the fallback (the default one
\* when the tool has none) when no rule is satisfied.
C1_FirstSatisfiedRuleElseFallback ==
    phase = "scored" =>
        LET sat == SatisfiedRules(tool, values)
        IN  outcome = IF sat = {} THEN ExpectedFallback(tool)
                      ELSE OutcomeOf(tool.rules[Least(sat)])

\* C2: evaluate_rules never returns the outcome of a rule without conditions:
\* what it returns is the outcome of a rule that has conditions, or the
\* fallback; and the fallback when no rule has conditions.
C2_EmptyRuleNeverSelected ==
    phase = "scored" =>
        /\ outcome \in
              {OutcomeOf(tool.rules[i]) :
                  i \in {k \in 1..Len(tool.rules) : tool.rules[k].conditions # <<>>}}
              \cup {ExpectedFallback(tool)}
        /\ (\A k \in 1..Len(tool.rules) : tool.rules[k].conditions = <<>>)
              => outcome = ExpectedFallback(tool)

\* a rule without conditions stands first, a later rule was returned
C2_Witness ==
    /\ phase = "scored"
    /\ Len(tool.rules) >= 2
    /\ tool.rules[1].conditions = <<>>
    /\ outcome = OutcomeOf(tool.rules[2])
    /\ outcome # ExpectedFallback(tool)

\* the value a scoring rule looks at is among its favor / against values
ValueIn(rule, vals, list) ==
    /\ rule.input_id \in DOMAIN vals
    /\ \E k \in 2..Len(list) : list[k] = vals[rule.input_id]

InFavor(rule, vals) == ValueIn(rule, vals, rule.favor_values)
InAgainst(rule, vals) == ValueIn(rule, vals, rule.against_values)

AddsToFavor(rule, vals) ==
    /\ rule.input_id # EmptyStr
    /\ \/ InFavor(rule, vals) /\ rule.invert_favor = PyFalse
       \/ ~InFavor(rule, vals) /\ InAgainst(rule, vals) /\ rule.invert_favor = PyTrue

AddsToAgainst(rule, vals) ==
    /\ rule.input_id # EmptyStr
    /\ \/ InFavor(rule, vals) /\ rule.invert_favor = PyTrue
       \/ ~InFavor(rule, vals) /\ InAgainst(rule, vals) /\ rule.invert_favor = PyFalse

\* C3: compute_scores returns (favor_count, against_count), each scoring rule
\* with a non-empty input_id adding 1 to one counter at most: for a value in
\* favor_values to favor_count (to against_count when invert_favor), else for
\* a value in against_values to against_count (to favor_count when
\* invert_favor), else to neither.
C3_ScoresCountRules ==
    phase = "scored" =>
        LET n == Len(tool.scoring_rules)
            favor == {i \in 1..n : AddsToFavor(tool.scoring_rules[i], values)}
            against == {i \in 1..n : AddsToAgainst(tool.scoring_rules[i], values)}
        IN  /\ scores.plus = Cardinality(favor)
            /\ scores.minus = Cardinality(against)
            /\ favor \cap against = {}

\* a value in both lists was scored, once as favoring and once inverted
C3_Witness ==
    /\ phase = "scored"
    /\ scores.plus >= 1
    /\ scores.minus >= 1
    /\ \E i \in 1..Len(tool.scoring_rules) :
          /\ InFavor(tool.scoring_rules[i], values)
          /\ InAgainst(tool.scoring_rules[i], values)
          /\ tool.scoring_rules[i].invert_favor = PyFalse
    /\ \E i \in 1..Len(tool.scoring_rules) :
          /\ InFavor(tool.scoring_rules[i], values)
          /\ tool.scoring_rules[i].invert_favor = PyTrue

\* a rule with a condition on an input id that values does not hold
Dangling(rule, vals) ==
    \E c \in 1..Len(rule.conditions) : rule.conditions[c].input_id \notin DOMAIN vals

\* the scoring rules without those on an input id that values does not hold
WithoutDanglingScoring(t, vals) ==
    [t EXCEPT !.scoring_rules =
        SelectSeq(t.scoring_rules, LAMBDA r : r.input_id \in DOMAIN vals)]

\* C6: a recommendation rule with a condition on an input id that is no key
\* of values is never the rule evaluate_rules returns from, and a scoring
\* rule on such an input id changes neither counter of compute_scores.
C6_DanglingReferenceInert ==
    phase = "scored" =>
        /\ \A i \in 1..Len(tool.rules) :
              Dangling(tool.rules[i], values) => SelectedRule(tool, values) # i
        /\ scores = compute_scores(WithoutDanglingScoring(tool, values), values)

-----------------------------------------------------------------------------
(* Claims about the transcoder *)

Items(list) == {list[k] : k \in 2..Len(list)}

NoComma(str) == \A k \in 1..Len(str) : str[k] # COMMA
Trimmed(str) == IsStr(str) /\ (str = EmptyStr \/ (str[1] # SP /\ str[Len(str)] # SP))
NonEmpty(str) == IsStr(str) /\ str # EmptyStr

CsvLists(t) ==
    {t.inputs[i].options : i \in 1..Len(t.inputs)}
    \cup {t.scoring_rules[i].favor_values : i \in 1..Len(t.scoring_rules)}
    \cup {t.scoring_rules[i].against_values : i \in 1..Len(t.scoring_rules)}

Conditions(t) ==
    UNION {{t.rules[i].conditions[c] : c \in 1..Len(t.rules[i].conditions)} :
              i \in 1..Len(t.rules)}

\* at most 3 conditions per rule, non-empty input id, scoring input_id and
\* rule name, values without embedded commas
RoundTripPrecondition(t) ==
    /\ \A i \in 1..Len(t.rules) : Len(t.rules[i].conditions) <= 3
    /\ \A i \in 1..Len(t.inputs) : NonEmpty(t.inputs[i].id)
    /\ \A i \in 1..Len(t.scoring_rules) : NonEmpty(t.scoring_rules[i].input_id)
    /\ \A i \in 1..Len(t.rules) : NonEmpty(t.rules[i].name)
    /\ \A list \in CsvLists(t) : \A v \in Items(list) : IsStr(v) /\ NoComma(v)

\* what the conversions normalise away is not there to begin with
Normalised(t) ==
    /\ \A i \in 1..Len(t.inputs) : Trimmed(t.inputs[i].id) /\ Trimmed(t.inputs[i].label)
    /\ \A i \in 1..Len(t.scoring_rules) : Trimmed(t.scoring_rules[i].input_id)
    /\ \A list \in CsvLists(t) : \A v \in Items(list) : NonEmpty(v) /\ Trimmed(v)
    /\ \A cond \in Conditions(t) :
          NonEmpty(cond.input_id) /\ Trimmed(cond.input_id) /\ cond.value # EmptyStr

\* C4 as stated: for a definition with at most 3 conditions per rule,
\* non-empty required fields and values without commas, inputs, scoring_rules
\* and rules converted to rows and back equal the originals.
C4_RoundTripAsStated ==
    (last.fn = "round_trip" /\ RoundTripPrecondition(last.before))
        => last.res = Ok(last.before)

\* C4, amended: the same for a definition that is, besides, normalised: ids,
\* labels and list values without leading or trailing whitespace, no empty
\* list value, every condition with a non-empty input_id and a value other
\* than the empty string.
C4_RoundTripNormalised ==
    (last.fn = "round_trip" /\ RoundTripPrecondition(last.before)
        /\ Normalised(last.before))
        => last.res = Ok(last.before)

\* a normalised definition with two conditions in a rule and several options
\* went through the conversions
C4_Witness ==
    /\ last.fn = "round_trip"
    /\ RoundTripPrecondition(last.before) /\ Normalised(last.before)
    /\ \E i \in 1..Len(last.before.rules) : Len(last.before.rules[i].conditions) >= 2
    /\ \E i \in 1..Len(last.before.inputs) : Len(last.before.inputs[i].options) >= 3
    /\ tool = last.before

RowsToModel == {"input_rows_to_tool", "scoring_rows_to_tool", "rule_rows_to_tool"}

\* the required key field of a converted record
KeyOf(fn, rec) ==
    IF fn = "input_rows_to_tool" THEN rec.id
    ELSE IF fn = "scoring_rows_to_tool" THEN rec.input_id
    ELSE rec.name

\* out holds, in order, the records of some of the rows
InRowOrder(fn, rows, out) ==
    \E f \in [1..Len(out) -> 1..Len(rows)] :
        /\ \A j, k \in 1..Len(out) : j < k => f[j] < f[k]
        /\ \A k \in 1..Len(out) : Strip(KeyOf(fn, out[k])) = Strip(KeyOf(fn, rows[f[k]]))

\* C5: the rows-to-model conversions leave out each row lacking its key
\* field: the output is no longer than the input, keeps the rows' order, and
\* holds no record with an empty id, input_id or name.
C5_NoRecordWithEmptyKey ==
    (last.fn \in RowsToModel /\ last.res.ok) =>
        /\ Len(last.res.val) <= Len(last.rows)
        /\ InRowOrder(last.fn, last.rows, last.res.val)
        /\ \A k \in 1..Len(last.res.val) : KeyOf(last.fn, last.res.val[k]) # EmptyStr

\* C7: the rows-to-model conversions return a model for every row, whatever
\* cells of it are missing, empty or None; none of them ends in an error.
C7_ConversionsNeverRaise ==
    last.fn \in RowsToModel => last.res.ok

-----------------------------------------------------------------------------
(* The session of main(): one action per run of the script, for the widget *)
(* the user touched.  None is <<>> for editing_tool (else <<the dict>>).   *)

LEVELS == {S("success"), S("info"), S("warning"), S("error")}

\* the most tools the store holds
MaxTools == 2

\* the most presses of Save Tool in a session
MaxSaves == 2

\* f"tool_{uuid.uuid4().hex[:8]}"
ToolId(k) == <<"tool_", k>>
ToolIds == {ToolId(k) : k \in 1..MaxTools}

Range(seq) == {seq[k] : k \in 1..Len(seq)}

\* list.index(x)
IndexOf(seq, x) == CHOOSE k \in 1..Len(seq) : seq[k] = x /\ \A j \in 1..(k - 1) : seq[j] # x

\* del d[key], on the keys in dict order
Without(seq, x) == SelectSeq(seq, LAMBDA y : y # x)

Restrict(f, keys) == [k \in keys |-> f[k]]

\* d[key] = value: a new key goes last
Put(f, key, value) == [k \in DOMAIN f \cup {key} |-> IF k = key THEN value ELSE f[k]]
PutOrder(seq, key) == IF key \in Range(seq) THEN seq ELSE Append(seq, key)

\* tool_labels
ToolLabels(order, tls) == [k \in 1..Len(order) |-> tls[order[k]].name]

\* the selectbox's index= argument (1-based here)
SelectboxIndex(order, sel) == IF sel \in Range(order) THEN IndexOf(order, sel) ELSE 1

\* selected_tool_id after the selectbox, for the entry the selectbox shows
SidebarSelection(order, tls, sel, entry) ==
    IF order = <<>> THEN sel
    ELSE order[IndexOf(ToolLabels(order, tls), ToolLabels(order, tls)[entry])]

\* selected_tool_id after a deletion that keeps the old id (a mutation)
SelectedAfterDeleteStale(remaining_ids, old) == old

\* remaining_ids[0] if remaining_ids else None
SelectedAfterDelete(remaining_ids, old) ==
    IF remaining_ids # <<>> THEN remaining_ids[1] ELSE None

\* ensure_editing_tool: deepcopy(tools.get(tool_id)), None for no tool id
ensure_editing_tool(sel, tls) ==
    IF sel = None THEN <<>>
    ELSE IF sel \in DOMAIN tls THEN <<tls[sel]>>
    ELSE <<>>

\* the store after the builder tab's assignments to a tool that is the
\* stored dict itself, not a copy of it (a mutation)
StoreAfterEditsAliased(tls, sel, edited) == [tls EXCEPT ![sel] = edited]

\* the store after the builder tab's assignments to editing_tool: untouched,
\* editing_tool being a deep copy
StoreAfterEdits(tls, sel, edited) == tls

\* what the builder's widgets return: <<>> for a widget left as rendered,
\* <<v>> for one the user set to v
NoEdits ==
    [name |-> <<>>, description |-> <<>>, inputs |-> <<>>, scoring_rules |-> <<>>,
     rules |-> <<>>, fallback_level |-> <<>>, fallback_message |-> <<>>]

Widget(edit, rendered) == IF edit = <<>> THEN rendered ELSE edit[1]

\* the Builder tab, lines 285-344, step by step: the tool as assigned so far,
\* and whether the run got through
Stopped(t) == [ok |-> FALSE, tool |-> t]

\* lines 342-344
BuildFallback(t, w) ==
    LET f == FallbackOutcome(t)
    IN  IF f.level \notin LEVELS THEN Stopped(t)
        ELSE [ok |-> TRUE,
              tool |-> [t EXCEPT !.fallback =
                           <<[level   |-> Widget(w.fallback_level, f.level),
                              message |-> Widget(w.fallback_message, f.message)]>>]]

\* lines 322-339
BuildRules(t, w) ==
    LET r == rule_rows_to_tool(Widget(w.rules, tool_to_rule_rows(t)))
    IN  IF ~r.ok THEN Stopped(t) ELSE BuildFallback([t EXCEPT !.rules = r.val], w)

\* lines 306-318
BuildScoring(t, w) ==
    LET s == scoring_rows_to_tool(Widget(w.scoring_rules, tool_to_scoring_rows(t)))
    IN  IF ~s.ok THEN Stopped(t) ELSE BuildRules([t EXCEPT !.scoring_rules = s.val], w)

\* lines 290-302
BuildInputs(t, w) ==
    LET i == input_rows_to_tool(Widget(w.inputs, tool_to_input_rows(t)))
    IN  IF ~i.ok THEN Stopped(t) ELSE BuildScoring([t EXCEPT !.inputs = i.val], w)

\* lines 285-286, and on
BuilderTab(t, w) ==
    BuildInputs([t EXCEPT !.name = Widget(w.name, Get(t.name, EmptyStr)),
                          !.description = Widget(w.description, Get(t.description, EmptyStr))],
                w)

\* number_input's 0.0
Float0 == <<"<0.0>">>

\* the value the input collector returns for an input left as rendered
CollectorOptions(item) ==
    IF ListItems(Get(item.options, MkList(<<>>))) = <<>> THEN <<EmptyStr>>
    ELSE ListItems(Get(item.options, MkList(<<>>)))

Collected(item, pv) ==
    LET input_id == Get(item.id, None)
        type == Get(item.type, S("select"))
        options == CollectorOptions(item)
    IN  IF type = S("select")
        THEN LET default == IF input_id \in DOMAIN pv THEN pv[input_id] ELSE options[1]
             IN  Ok(IF default \in Range(options) THEN default ELSE options[1])
        ELSE IF type = S("number")
        THEN LET default == IF input_id \in DOMAIN pv THEN pv[input_id] ELSE Float0
             IN  IF default = Float0 THEN Ok(Float0) ELSE Raised
        ELSE LET default == IF input_id \in DOMAIN pv THEN pv[input_id] ELSE EmptyStr
             IN  Ok(IF default = Float0 THEN S("0.0") ELSE Str(default))

\* the loop of lines 359-378 from input k on
RECURSIVE Collect(_, _, _)
Collect(inputs, k, pv) ==
    IF k > Len(inputs) THEN [ok |-> TRUE, pv |-> pv]
    ELSE LET v == Collected(inputs[k], pv)
         IN  IF ~v.ok THEN [ok |-> FALSE, pv |-> pv]
             ELSE Collect(inputs, k + 1, Put(pv, Get(inputs[k].id, None), v.val))

\* what load_tools() may return: no file, or a file of earlier sessions
LoadedStores ==
    {[order |-> <<>>, tools |-> <<>>],
     [order |-> <<ToolId(1)>>, tools |-> (ToolId(1) :> PaddedTool)]}

\* the widgets' values in a run in which the user changed one of them
SingleEdits ==
    {[NoEdits EXCEPT !.name = <<S("Renamed")>>],
     [NoEdits EXCEPT !.description = <<S("About")>>],
     [NoEdits EXCEPT !.inputs =
         <<<<InputRow(S("q"), S("Q?"), S("number"), EmptyStr),
             InputRow(None, None, None, None)>>>>],
     [NoEdits EXCEPT !.inputs = <<<<InputRow(S("r"), None, None, None)>>>>],
     [NoEdits EXCEPT !.scoring_rules = <<<<ScoringRow(S("q"), S("Yes"), S("No"), PyTrue)>>>>],
     [NoEdits EXCEPT !.rules =
         <<<<RuleRow(S("R4"), S("warning"), S("Ghost"),
                     <<S("ghost"), EmptyStr, EmptyStr>>, <<None, EmptyStr, EmptyStr>>)>>>>],
     [NoEdits EXCEPT !.fallback_level = <<S("error")>>, !.fallback_message = <<S("Stop")>>]}

\* the state after ensure_state() in the session's first run
AppInit ==
    /\ phase = "idle"
    /\ tool = DEFAULT_TOOL
    /\ last = NoCall
    /\ values = <<>>
    /\ outcome = NoOutcome
    /\ scores = NoScores
    /\ \E store \in LoadedStores :
          /\ tool_order = store.order
          /\ tools = store.tools
          /\ file_order = store.order
          /\ file_tools = store.tools
          /\ selected_tool_id = IF store.order # <<>> THEN store.order[1] ELSE None
          /\ chosen = IF store.order # <<>> THEN store.order[1] ELSE None
    /\ editing_tool = <<>>
    /\ preview_values = <<>>
    /\ saves = 0
    /\ event = [kind |-> "session", ended |-> "done", target |-> None, wanted |-> None]

RerunPending == event.ended = "rerun"

Event(kind, ended, target) ==
    [kind |-> kind, ended |-> ended, target |-> target, wanted |-> chosen]

\* the Preview tab, lines 357-389: preview_values, the outcome and the scores
\* after it, and whether it got through
PreviewTab(t, sel, pvs, old_outcome, old_scores) ==
    LET c == Collect(t.inputs, 1, IF sel \in DOMAIN pvs THEN pvs[sel] ELSE <<>>)
    IN  IF c.ok
        THEN [ok |-> TRUE, pvs |-> Put(pvs, sel, c.pv),
              outcome |-> evaluate_rules(t, c.pv), scores |-> compute_scores(t, c.pv)]
        ELSE \* float(default) raised; a dict already stored was updated in place
             [ok |-> FALSE,
              pvs |-> IF sel \in DOMAIN pvs THEN Put(pvs, sel, c.pv) ELSE pvs,
              outcome |-> old_outcome, scores |-> old_scores]

\* lines 278-389 for the tool id sel, not None
Tabs(kind, sel, copy, w, save) ==
    IF copy = <<>>
    THEN \* tool is None: tool.get raises
         /\ event' = Event(kind, "error", None)
         /\ editing_tool' = <<>>
         /\ UNCHANGED <<tool_order, tools, file_order, file_tools,
                        preview_values, outcome, scores>>
    ELSE \E b \in {BuilderTab(copy[1], w)} :
         \E edited \in {StoreAfterEdits(tools, sel, b.tool)} :
            /\ editing_tool' = <<b.tool>>
            /\ tool_order' = tool_order
            /\ IF ~b.ok
               THEN \* a conversion raised
                    /\ event' = Event(kind, "error", None)
                    /\ tools' = edited
                    /\ UNCHANGED <<file_order, file_tools, preview_values, outcome, scores>>
               ELSE \E saved \in {IF save THEN Put(edited, sel, b.tool) ELSE edited} :
                    \E p \in {PreviewTab(b.tool, sel, preview_values, outcome, scores)} :
                       /\ tools' = saved
                       /\ file_order' = IF save THEN tool_order ELSE file_order
                       /\ file_tools' = IF save THEN saved ELSE file_tools
                       /\ preview_values' = p.pvs
                       /\ outcome' = p.outcome
                       /\ scores' = p.scores
                       /\ event' = Event(kind, IF p.ok THEN "done" ELSE "error",
                                         IF save THEN sel ELSE None)

\* a run of main() without New Tool or Delete Tool pressed: the selectbox
\* shows `entry`, the builder's widgets return `w`, Save Tool is pressed or not
Run(kind, entry, w, save) ==
    \E sel \in {SidebarSelection(tool_order, tools, selected_tool_id, entry)} :
        /\ selected_tool_id' = sel
        /\ UNCHANGED <<phase, tool, last, values>>
        /\ IF sel = None
           THEN \* st.stop()
                /\ event' = Event(kind, "stop", None)
                /\ UNCHANGED <<tool_order, tools, file_order, file_tools, editing_tool,
                               preview_values, outcome, scores>>
           ELSE Tabs(kind, sel, ensure_editing_tool(sel, tools), w, save)

\* a run nothing was touched for (the first run, or the one st.rerun() starts)
Rerender ==
    /\ Run("render", SelectboxIndex(tool_order, selected_tool_id), NoEdits, FALSE)
    /\ UNCHANGED <<chosen, saves>>

\* the user picks entry j of the selectbox
SelectTool(j) ==
    /\ ~RerunPending
    /\ j \in 1..Len(tool_order)
    /\ chosen' = tool_order[j]
    /\ Run("select", j, NoEdits, FALSE)
    /\ UNCHANGED saves

\* the user changes a widget of the Builder tab
EditTool(w) ==
    /\ ~RerunPending
    /\ tool_order # <<>>
    /\ Run("edit", SelectboxIndex(tool_order, selected_tool_id), w, FALSE)
    /\ UNCHANGED <<chosen, saves>>

\* the user presses Save Tool, the widgets holding w
SaveTool(w) ==
    /\ ~RerunPending
    /\ tool_order # <<>>
    /\ saves < MaxSaves
    /\ saves' = saves + 1
    /\ Run("save", SelectboxIndex(tool_order, selected_tool_id), w, TRUE)
    /\ UNCHANGED chosen

\* the user presses New Tool; new_id is a fresh id
NewTool(new_id) ==
    /\ ~RerunPending
    /\ Len(tool_order) < MaxTools
    /\ new_id \notin DOMAIN tools
    /\ tools' = Put(tools, new_id, DEFAULT_TOOL)
    /\ tool_order' = PutOrder(tool_order, new_id)
    /\ selected_tool_id' = new_id
    /\ file_tools' = tools'
    /\ file_order' = tool_order'
    /\ preview_values' = Restrict(preview_values, DOMAIN preview_values \ {new_id})
    /\ chosen' = new_id
    /\ event' = Event("new", "rerun", new_id)
    /\ UNCHANGED <<editing_tool, outcome, scores, saves, phase, tool, last, values>>

\* the user presses Delete Tool
DeleteTool ==
    /\ ~RerunPending
    /\ tool_order # <<>>
    /\ LET sel == SidebarSelection(tool_order, tools, selected_tool_id,
                                   SelectboxIndex(tool_order, selected_tool_id))
           remaining_ids == Without(tool_order, sel)
       IN  /\ tools' = Restrict(tools, DOMAIN tools \ {sel})
           /\ tool_order' = remaining_ids
           /\ file_tools' = tools'
           /\ file_order' = tool_order'
           /\ selected_tool_id' = SelectedAfterDelete(remaining_ids, sel)
           /\ chosen' = IF remaining_ids # <<>> THEN remaining_ids[1] ELSE None
           /\ event' = Event("delete", "rerun", sel)
    /\ UNCHANGED <<editing_tool, preview_values, outcome, scores, saves, phase, tool,
                   last, values>>

AppNext ==
    \/ Rerender
    \/ \E j \in 1..MaxTools : SelectTool(j)
    \/ \E w \in SingleEdits : EditTool(w)
    \/ \E w \in SingleEdits : SaveTool(w)
    \/ SaveTool(NoEdits)
    \/ \E new_id \in ToolIds : NewTool(new_id)
    \/ DeleteTool

SpecApp == AppInit /\ [][AppNext]_vars

-----------------------------------------------------------------------------
(* Claims about the session *)

\* the definitions of the tools that are in store before and after a step
\* differ only for the tool a Save Tool run stored
ChangedOnlyBySave(before, after) ==
    \A id \in DOMAIN before \cap DOMAIN after :
        after[id] # before[id] => (event'.kind = "save" /\ event'.target = id)

\* C8: the definition of a tool in tools_data["tools"] and in the file
\* changes only in a run in which Save Tool is pressed for that tool, and a
\* tool enters or leaves them only by New Tool or Delete Tool; a run that
\* only edits widgets leaves both as they are.
C8_StoreChangesOnlyOnSave ==
    [][/\ ChangedOnlyBySave(tools, tools')
       /\ ChangedOnlyBySave(file_tools, file_tools')
       /\ DOMAIN tools' # DOMAIN tools => event'.kind \in {"new", "delete"}
       /\ DOMAIN file_tools' # DOMAIN file_tools => event'.kind \in {"new", "delete"}
       /\ event'.kind = "edit" => (tools' = tools /\ file_tools' = file_tools)]_vars

\* an edit was made and not saved, after an earlier save
C8_Witness ==
    /\ event.kind = "edit"
    /\ event.ended = "done"
    /\ saves >= 1
    /\ selected_tool_id \in DOMAIN tools
    /\ editing_tool # <<tools[selected_tool_id]>>
    /\ file_tools = tools

\* C9: after a run that got past the sidebar, selected_tool_id is the tool
\* the user chose (the tool just created, after New Tool), also when tools
\* share a name; Save Tool and Delete Tool act on the chosen tool.
C9_SelectedIsChosen ==
    /\ (event.kind \in {"render", "select", "edit", "save"} /\ tool_order # <<>>)
          => selected_tool_id = chosen
    /\ (event.kind = "save" /\ event.ended = "done") => event.target = event.wanted
    /\ event.kind = "delete" => event.target = event.wanted

\* C10: selected_tool_id is None exactly when the store has no tools, and is
\* else a key of tools_data["tools"]; when a run gets to ensure_editing_tool,
\* the editing_tool it leaves is a tool, not None.
C10_SelectedIsAKey ==
    /\ selected_tool_id = None <=> tool_order = <<>>
    /\ selected_tool_id # None => selected_tool_id \in DOMAIN tools
    /\ Range(tool_order) = DOMAIN tools
    /\ (event.kind \in {"render", "select", "edit", "save"} /\ event.ended # "stop")
          => editing_tool # <<>>

\* the last tool was deleted, and the run that followed stopped at st.stop()
C10_Witness ==
    /\ event.kind = "render"
    /\ event.ended = "stop"
    /\ selected_tool_id = None
    /\ tool_order = <<>>
    /\ editing_tool # <<>>

====
